---- MODULE Spec2Model ----
(***************************************************************************)
(* MongoLock (src/src/mongolock.py): a lock shared between processes,      *)
(* kept as one document per key in a MongoDB collection.                   *)
(*                                                                         *)
(* Every action is one round trip to the collection together with the      *)
(* client code that runs before the request is sent and after the reply    *)
(* comes back.  The collection applies each request atomically.  All       *)
(* callers read one clock, now, which the Tick action advances; the clock  *)
(* reads of lines 60, 66, 108 and 115 are taken in the step of the request *)
(* they precede, those of lines 74 and 79 in the step of the request they  *)
(* follow.  The history variables freed_by and last record what a step did *)
(* and take no part in any guard.                                          *)
(***************************************************************************)
EXTENDS Integers, FiniteSets, Sequences, TLC

\* ---------------------------------------------------------------- bounds
MaxTime == 2          \* the clock runs over 0..MaxTime
MaxExpire == 1        \* `expire` arguments are None, 0 or MaxExpire seconds
MaxTimeout == 1       \* `timeout` arguments are None, 0 or MaxTimeout seconds
MaxLease == 2         \* touch() is followed while expire - created <= MaxLease

\* ---------------------------------------------------------------- values
NULL == -1            \* Python's None in a numeric position
NoOwner == "None"     \* Python's None in the owner field

Procs == {"p1", "p2"}         \* client processes (threads) using the collection
Owners == {"x", "y"}          \* owner identifiers callers pass
Keys == {"a"}                 \* lock names

ExpireArgs == {NULL, 0, MaxExpire}
TimeoutArgs == {NULL, 0, MaxTimeout}

\* Python truthiness of an optional number: None and 0 are false.
Truthy(x) == x # NULL /\ x # 0

\* No document with this _id.
NoRec == [exists |-> FALSE, locked |-> FALSE, owner |-> NoOwner,
          created |-> NULL, expire |-> NULL]

\* The document release() writes: the free state.
FreeRec == [exists |-> TRUE, locked |-> FALSE, owner |-> NoOwner,
            created |-> NULL, expire |-> NULL]

\* The document lock() and _try_get_lock() write.
HeldRec(owner, created, expire) ==
    [exists |-> TRUE, locked |-> TRUE, owner |-> owner,
     created |-> created, expire |-> expire]

\* Line 60: expire = utcnow() + timedelta(seconds=expire) if expire else None
ExpireAt(t, d) == IF Truthy(d) THEN t + d ELSE NULL

VARIABLES
    store,      \* the collection: key -> document (NoRec when absent)
    now,        \* the wall clock, datetime.utcnow()
    pc,         \* where each process is
    call,       \* the arguments of the call each process is in
    expire,     \* lock(): the local `expire` (absolute time or None)
    start_time, \* lock(): the local `start_time`
    lease,      \* touch(): lock['expire'] - lock['created'] of the document read
    freed_by,   \* history: key -> the owner whose release() freed the document
    last        \* history: the step just taken, its arguments and its outcome

vars == <<store, now, pc, call, expire, start_time, lease, freed_by, last>>

NoCall == [op |-> "none", key |-> "a", owner |-> NoOwner, timeout |-> NULL]

\* The arguments a running call still uses.
Call(op, k, o, t) == [op |-> op, key |-> k, owner |-> o, timeout |-> t]

\* How a document stands at time t.
Standing(rec, t) ==
    IF ~rec.exists THEN "absent"
    ELSE IF ~rec.locked THEN "free"
    ELSE IF rec.expire = NULL THEN "unexpiring"
    ELSE IF rec.expire > t THEN "live"
    ELSE IF rec.expire = t THEN "due"
    ELSE "abandoned"

\* The record of a step: `step` names the action, `op` the public method the
\* process is in, `wait` whether lock() was given a timeout it waits for,
\* `res` what the step returned or raised ("loop" / "write" when the method
\* goes on), `was` the standing of the document under the key before the
\* step, `holder` the owner that held it then (for a free document: the owner
\* that freed it), `changed` whether the step changed the document.
Event(step, c, res, pre, post) ==
    [step |-> step, op |-> c.op, key |-> c.key, owner |-> c.owner,
     wait |-> Truthy(c.timeout), res |-> res, was |-> Standing(pre, now),
     holder |-> IF pre.exists /\ ~pre.locked THEN freed_by[c.key] ELSE pre.owner,
     changed |-> post # pre]

NoEvent(step) == Event(step, NoCall, "None", NoRec, NoRec)

Init ==
    /\ store = [k \in Keys |-> NoRec]
    /\ now = 0
    /\ pc = [p \in Procs |-> "idle"]
    /\ call = [p \in Procs |-> NoCall]
    /\ expire = [p \in Procs |-> NULL]
    /\ start_time = [p \in Procs |-> NULL]
    /\ lease = [p \in Procs |-> 0]
    /\ freed_by = [k \in Keys |-> NoOwner]
    /\ last = NoEvent("init")

\* The clock advances.
Tick ==
    /\ now < MaxTime
    /\ now' = now + 1
    /\ last' = NoEvent("tick")
    /\ UNCHANGED <<store, pc, call, expire, start_time, lease, freed_by>>

\* ------------------------------------------------------- the collection
\* (mutant) no unique index: every insert is accepted.
NoDuplicateKey(rec) == FALSE

\* insert(): the unique _id index rejects a second document with the key.
DuplicateKey(rec) == rec.exists

\* (mutant) save() in place of insert(): the document is overwritten.
AfterSave(rec, new) == new

\* The document under the key after insert(new).
AfterInsert(rec, new) == IF DuplicateKey(rec) THEN rec ELSE new

\* (mutant) the query without its expire branch.
TryMatchFreeOnly(rec, dtnow) == rec.exists /\ rec.locked = FALSE

\* (mutant) the expire branch compared the wrong way round ($gt).
TryMatchUnexpired(rec, dtnow) ==
    /\ rec.exists
    /\ \/ rec.locked = FALSE
       \/ rec.expire # NULL /\ rec.expire > dtnow

\* _try_get_lock's query, for the document under `key`:
\*   {'$or': [{'_id': key, 'locked': False}, {'_id': key, 'expire': {'$lt': dtnow}}]}
\* ($lt against a date never matches a null expire).
TryMatch(rec, dtnow) ==
    /\ rec.exists
    /\ \/ rec.locked = FALSE
       \/ rec.expire # NULL /\ rec.expire < dtnow

\* result['n'] of _try_get_lock's update.
TryCount(st, key, dtnow) ==
    Cardinality({k \in Keys : k = key /\ TryMatch(st[k], dtnow)})

\* Lines 130-132: what _try_get_lock returns for result['n'].
TryGetLockResult(n) ==
    IF n > 1 THEN "MongoLockException" ELSE IF n = 1 THEN "True" ELSE "False"

\* (mutant) a loop that never takes an answer of _try_get_lock as success.
TryNeverAccepted(res) == FALSE

\* Line 76: `if self._try_get_lock(key, owner, expire) is not None`.
TryAccepted(res) == res # "None"

\* Line 79: `if datetime.utcnow() >= start_time + timedelta(seconds=timeout)`.
DeadlinePassed(t, start, timeout) == t >= start + timeout

\* (mutant) the query {'_id': key}, without the owner.
KeyMatch(rec, owner) == rec.exists

\* release()'s and touch()'s query {'_id': key, 'owner': owner}.
OwnerMatch(rec, owner) == rec.exists /\ rec.owner = owner

\* (mutant) release() without the check of the old document.
ReleaseNeverRaises(status) == FALSE

\* Line 92: `if not status or not status['locked']` (status: the old document).
ReleaseRaises(status) == ~status.exists \/ ~status.locked

\* (mutant) touch() without the early return.
TouchNeverReturns(lock) == FALSE

\* Lines 106-107: `if not lock['expire']: return`.
TouchReturns(lock) == lock.expire = NULL

\* get_lock_info(): find_one({'_id': key}).
GetLockInfo(st, key) == st[key]

\* A process starts a call when it is not inside one.
MayStart(p) == pc[p] = "idle"

\* ------------------------------------------------------------- lock()
\* Where a process goes when lock() returns `res`: a plain lock() call is
\* over; inside __call__ a True result enters the caller's body, and a False
\* result ends the call: lines 40-45 read the document (which exists, the
\* insert was refused) and raise MongoLockLocked, changing nothing.
AfterLock(op, res) ==
    IF op = "scoped" /\ res = "True" THEN "body" ELSE "idle"

\* (mutant) the refused insert always goes on to the conditional update.
NeverGivesUp(t) == FALSE

\* Lines 71-72: `if not timeout: return False` after the refused insert.
GivesUp(t) == ~Truthy(t)

\* What the caller gets when lock() returns `res` (lines 39-46).
Outcome(op, res) ==
    IF op = "scoped" /\ res = "False" THEN "MongoLockLocked" ELSE res

\* Lines 60-74: compute expire, insert the held document; on DuplicateKeyError
\* return False when no timeout was given, else enter the retry loop.
\* op = "lock" is lock() called directly, op = "scoped" is __call__ calling it.
LockInsert(p, op, k, o, t, d) ==
    LET c == Call(op, k, o, t)
        e == ExpireAt(now, d)
        dup == DuplicateKey(store[k])
        res == IF ~dup THEN "True" ELSE IF GivesUp(t) THEN "False" ELSE "loop"
        next == IF res = "loop" THEN "try" ELSE AfterLock(op, res)
    IN  /\ MayStart(p)
        /\ store' = [store EXCEPT ![k] = AfterInsert(@, HeldRec(o, now, e))]
        /\ pc' = [pc EXCEPT ![p] = next]
        /\ call' = [call EXCEPT ![p] = IF next = "idle" THEN NoCall
                                        ELSE IF next = "try" THEN c
                                        ELSE Call(op, k, o, NULL)]
        /\ expire' = [expire EXCEPT ![p] = IF res = "loop" THEN e ELSE NULL]
        /\ start_time' = [start_time EXCEPT ![p] = IF res = "loop" THEN now ELSE NULL]
        /\ last' = Event("insert", c, Outcome(op, res), store[k], store'[k])
        /\ freed_by' = IF store'[k].locked THEN [freed_by EXCEPT ![k] = NoOwner]
                       ELSE freed_by
        /\ UNCHANGED <<now, lease>>

\* Lines 75-80 and 114-132: one turn of the retry loop.
TryGetLock(p) ==
    LET c == call[p]
        k == c.key
        dtnow == now
        n == TryCount(store, k, dtnow)
        got == TryGetLockResult(n)
        res == IF got = "MongoLockException" THEN got
               ELSE IF TryAccepted(got) THEN "True"
               ELSE IF DeadlinePassed(now, start_time[p], c.timeout) THEN "False"
               ELSE "loop"
        next == IF res = "loop" THEN "try"
                ELSE IF res = "MongoLockException" THEN "idle"
                ELSE AfterLock(c.op, res)
    IN  /\ pc[p] = "try"
        /\ store' = IF n >= 1
                    THEN [store EXCEPT ![k] = HeldRec(c.owner, dtnow, expire[p])]
                    ELSE store
        /\ pc' = [pc EXCEPT ![p] = next]
        /\ call' = [call EXCEPT ![p] = IF next = "idle" THEN NoCall
                                        ELSE IF next = "try" THEN c
                                        ELSE Call(c.op, k, c.owner, NULL)]
        /\ expire' = [expire EXCEPT ![p] = IF res = "loop" THEN @ ELSE NULL]
        /\ start_time' = [start_time EXCEPT ![p] = IF res = "loop" THEN @ ELSE NULL]
        /\ last' = Event("try", c, Outcome(c.op, res), store[k], store'[k])
        /\ freed_by' = IF store'[k].locked THEN [freed_by EXCEPT ![k] = NoOwner]
                       ELSE freed_by
        /\ UNCHANGED <<now, lease>>

\* ---------------------------------------------------------- release()
\* Lines 88-93: find_and_modify({'_id': key, 'owner': owner}, <free document>)
\* returns the old document, or None when nothing matched.
ReleaseStep(step, p, c) ==
    LET k == c.key
        hit == OwnerMatch(store[k], c.owner)
        status == IF hit THEN store[k] ELSE NoRec
        res == IF ReleaseRaises(status) THEN "MongoLockException" ELSE "None"
    IN  /\ store' = IF hit THEN [store EXCEPT ![k] = FreeRec] ELSE store
        /\ pc' = [pc EXCEPT ![p] = "idle"]
        /\ call' = [call EXCEPT ![p] = NoCall]
        /\ last' = Event(step, c, res, store[k], store'[k])
        /\ freed_by' = IF hit /\ store[k].locked THEN [freed_by EXCEPT ![k] = c.owner]
                       ELSE freed_by
        /\ UNCHANGED <<now, expire, start_time, lease>>

Release(p, k, o) ==
    /\ MayStart(p)
    /\ ReleaseStep("release", p, Call("release", k, o, NULL))

\* ------------------------------------------------------------ touch()
\* Lines 103-107: find_one({'_id': key, 'owner': owner}); raise when there is
\* none, return when the document has no expire, else go on to the update.
TouchRead(p, k, o) ==
    LET c == Call("touch", k, o, NULL)
        hit == OwnerMatch(store[k], o)
        lock == IF hit THEN store[k] ELSE NoRec
        res == IF ~lock.exists THEN "MongoLockException"
               ELSE IF TouchReturns(lock) THEN "None" ELSE "write"
    IN  /\ MayStart(p)
        /\ res = "write" => lock.expire - lock.created <= MaxLease
        /\ pc' = [pc EXCEPT ![p] = IF res = "write" THEN "touch_write" ELSE "idle"]
        /\ call' = [call EXCEPT ![p] = IF res = "write" THEN c ELSE NoCall]
        /\ lease' = [lease EXCEPT ![p] = IF res = "write"
                                         THEN lock.expire - lock.created ELSE 0]
        /\ last' = Event("touch_read", c, res, store[k], store[k])
        /\ UNCHANGED <<store, now, expire, start_time, freed_by>>

\* Lines 108-112: expire = utcnow() + (lock['expire'] - lock['created']);
\* update({'_id': key, 'owner': owner}, {'$set': {'expire': expire}}).
TouchWrite(p) ==
    LET c == call[p]
        k == c.key
        e == now + lease[p]
        hit == OwnerMatch(store[k], c.owner)
    IN  /\ pc[p] = "touch_write"
        /\ store' = IF hit THEN [store EXCEPT ![k].expire = e] ELSE store
        /\ pc' = [pc EXCEPT ![p] = "idle"]
        /\ call' = [call EXCEPT ![p] = NoCall]
        /\ lease' = [lease EXCEPT ![p] = 0]
        /\ last' = Event("touch_write", c, "None", store[k], store'[k])
        /\ UNCHANGED <<now, expire, start_time, freed_by>>

\* ---------------------------------------------------- get_lock_info()
\* Line 98, called directly: a read of the document under the key.
LockInfo(p, k) ==
    LET c == Call("get_lock_info", k, NoOwner, NULL)
    IN  /\ MayStart(p)
        /\ last' = Event("info", c,
                         IF GetLockInfo(store, k).exists THEN "found" ELSE "None",
                         store[k], store[k])
        /\ UNCHANGED <<store, now, pc, call, expire, start_time, lease, freed_by>>

\* ------------------------------------------------- __call__ (scoped use)
\* Lines 46-47: the caller's body finishes normally; the generator resumes
\* after `yield` and calls release(key, owner).
BodyReturns(p) ==
    /\ pc[p] = "body"
    /\ ReleaseStep("body_returns", p, call[p])

\* Line 46: the caller's body raises; contextlib throws the error into the
\* generator at `yield`, which has no try/finally around it, so the
\* generator ends there and line 47 is not run.
BodyRaises(p) ==
    /\ pc[p] = "body"
    /\ pc' = [pc EXCEPT ![p] = "idle"]
    /\ call' = [call EXCEPT ![p] = NoCall]
    /\ last' = Event("body_raises", call[p], "BodyError",
                     store[call[p].key], store[call[p].key])
    /\ UNCHANGED <<store, now, expire, start_time, lease, freed_by>>

\* ------------------------------------------------------ specification
Next ==
    \/ Tick
    \/ \E p \in Procs, k \in Keys, o \in Owners, t \in TimeoutArgs, d \in ExpireArgs :
          LockInsert(p, "lock", k, o, t, d)
    \/ \E p \in Procs, k \in Keys, o \in Owners, t \in TimeoutArgs, d \in ExpireArgs :
          LockInsert(p, "scoped", k, o, t, d)
    \/ \E p \in Procs : TryGetLock(p)
    \/ \E p \in Procs, k \in Keys, o \in Owners : Release(p, k, o)
    \/ \E p \in Procs, k \in Keys, o \in Owners : TouchRead(p, k, o)
    \/ \E p \in Procs : TouchWrite(p)
    \/ \E p \in Procs, k \in Keys : LockInfo(p, k)
    \/ \E p \in Procs : BodyReturns(p)
    \/ \E p \in Procs : BodyRaises(p)

Spec == Init /\ [][Next]_vars

\* The store answers every request (spec section 5: each call is a bounded
\* sequence of synchronous round trips): a process inside lock()'s loop at
\* lines 74-80 gets to make its next _try_get_lock call.
FairSpec == Spec /\ \A p \in Procs : WF_vars(TryGetLock(p))
\* ================================================================ claims
\* The document the last step was about.
Doc == store[last.key]

LockStep == last.step \in {"insert", "try"}
ReleaseCall == last.step \in {"release", "body_returns"}
Held == {"unexpiring", "live", "due", "abandoned"}

\* C1. Mutual exclusion: no two distinct owners are told at the same time that
\* they hold one unexpired, unreleased key.  The owner of a held document is
\* an owner whose lock() wrote it and returned True, so this says: lock()
\* never returns True to an owner while the document is held, with no expiry
\* or an expiry still ahead, by a different owner.
C1_MutualExclusion ==
    (LockStep /\ last.res = "True")
        => ~(last.was \in {"unexpiring", "live"} /\ last.holder # last.owner)

\* C2. Timeout behaviour: an acquisition attempt by y on a key that x holds
\* with no expiry does not return success, and the document stays x's.
C2_TimeoutFails ==
    (last.step = "try" /\ last.was = "unexpiring" /\ last.holder # last.owner)
        => (last.res # "True" /\ Doc.locked /\ Doc.owner = last.holder)

\* C3. Release round trip: after lock(key, x) and release(key, x) succeeded,
\* lock(key, y) without a timeout by another owner y succeeds and leaves the
\* document held by y.
C3_RoundTrip ==
    (/\ last.step = "insert" /\ last.op = "lock" /\ ~last.wait
     /\ last.was = "free" /\ last.holder # last.owner)
        => (last.res = "True" /\ Doc.locked /\ Doc.owner = last.owner)

\* C4. Fast path: lock() on a key with no document returns True from its first
\* store operation, the insert, and leaves one held document owned by the
\* caller; an insert is accepted only when the key had no document, so of the
\* callers racing on a never-seen key one is accepted.
C4_FastPath ==
    /\ (last.step = "insert" /\ last.was = "absent")
          => (last.res = "True" /\ last.changed /\ Doc.exists /\ Doc.locked
              /\ Doc.owner = last.owner /\ Doc.created = now)
    /\ (last.step = "insert" /\ (last.res = "True" \/ last.changed))
          => last.was = "absent"

C4_Witness ==
    /\ last.step = "insert" /\ last.op = "lock" /\ ~last.wait
    /\ last.was = "absent" /\ last.res = "True"
    /\ Doc.locked /\ Doc.owner = last.owner

\* C5. Expiry takeover: lock() with a timeout, by an owner other than the
\* holder, on a document whose expiry has passed goes on from the refused
\* insert to the conditional update, returns True and leaves the document
\* held by the caller.
C5_ExpiryTakeover ==
    /\ (last.step = "insert" /\ last.wait /\ last.was = "abandoned")
          => last.res = "loop"
    /\ (last.step = "try" /\ last.was = "abandoned" /\ last.holder # last.owner)
          => (last.res = "True" /\ Doc.locked /\ Doc.owner = last.owner)

C5_Witness ==
    /\ last.step = "try" /\ last.was = "abandoned" /\ last.holder # last.owner
    /\ last.res = "True" /\ Doc.locked /\ Doc.owner = last.owner

\* C6. Release without hold: release(key, z) raises MongoLockException and
\* leaves the document unchanged when the key has no document, a free
\* document, or a document held by another owner.
C6_ReleaseRejected ==
    (ReleaseCall /\ (last.was \in {"absent", "free"} \/ last.holder # last.owner))
        => (last.res = "MongoLockException" /\ ~last.changed)

C6_Witness ==
    /\ last.step = "release" /\ last.was \in Held /\ last.holder # last.owner
    /\ last.res = "MongoLockException" /\ Doc.locked /\ Doc.owner = last.holder

\* C7. Idempotent free state: a release that finds the document free raises;
\* a release succeeds only on a held document of the caller and leaves it
\* free, so of two releases of one held lock one succeeds and the other raises.
C7_FreeStaysFree ==
    /\ (ReleaseCall /\ last.was = "free") => last.res = "MongoLockException"
    /\ (ReleaseCall /\ last.res = "None")
          => (last.was \in Held /\ last.holder = last.owner /\ Doc = FreeRec)

C7_Witness ==
    /\ last.step = "release" /\ last.was = "free"
    /\ last.res = "MongoLockException" /\ Doc = FreeRec

\* C8. Renewal preserves lease length: when touch(key, owner) writes at time t
\* while owner holds the document, the document's expire becomes t + d, d the
\* lease length the lock was asked with (MaxExpire, the one positive length).
C8_RenewalKeepsLease ==
    (last.step = "touch_write" /\ last.was \in Held /\ last.holder = last.owner)
        => Doc.expire = now + MaxExpire

\* C9. Scoped acquisition always releases: when the body of a scoped
\* acquisition is left, normally or by an error, the document is not held by
\* that owner any more.
C9_ScopeReleases ==
    (last.step \in {"body_returns", "body_raises"})
        => ~(Doc.locked /\ Doc.owner = last.owner)

\* C10. No partial state on failed acquisition: a step of lock() that does
\* not return True (it returns False, raises, or goes on to the next
\* attempt) leaves the document as it was, so a call that returns False has
\* changed nothing.
C10_FailedLockNoChange ==
    (LockStep /\ last.res # "True") => ~last.changed

C10_Witness ==
    /\ last.step = "insert" /\ last.op = "lock" /\ last.res = "False"
    /\ last.was \in Held /\ ~last.changed /\ Doc.locked /\ Doc.owner = last.holder

\* C11. Renewal by a non-holder is rejected: touch(key, owner) raises
\* MongoLockException at its read and writes nothing when the key has no
\* document, a free document, or a document held by another owner.
C11_TouchRejected ==
    (last.step = "touch_read"
     /\ (last.was \in {"absent", "free"} \/ last.holder # last.owner))
        => (last.res = "MongoLockException" /\ ~last.changed)

C11_Witness ==
    /\ last.step = "touch_read" /\ last.was \in Held /\ last.holder # last.owner
    /\ last.res = "MongoLockException" /\ Doc.locked /\ Doc.owner = last.holder

\* C12. Success implies a write by the caller: lock() returns True only from
\* a step whose insert was accepted (the key had no document) or whose
\* conditional update matched (the document was free or past its expire), and
\* that step leaves the document held by the caller, created at that moment.
C12_SuccessWrites ==
    (LockStep /\ last.res = "True")
        => (/\ IF last.step = "insert" THEN last.was = "absent"
               ELSE last.was \in {"free", "abandoned"}
            /\ Doc.locked /\ Doc.owner = last.owner /\ Doc.created = now)

C14_BoundaryTakeover ==
    (last.step = "try" /\ last.was \in {"due", "abandoned"})
        => (Doc.locked /\ Doc.owner = last.owner /\ Doc.created = now)

\* C15. Exclusivity of a live lease: a step of lock() on a held document
\* with no expire, or with its expire still ahead, leaves the document as it
\* is; and the owner of a held document changes only by a successful release
\* by that owner or by a conditional update after the expire has passed.
C15_LiveLeaseKept ==
    /\ (LockStep /\ last.was \in {"unexpiring", "live"}) => ~last.changed
    /\ (last.was \in Held /\ Doc.owner # last.holder)
          => \/ ReleaseCall /\ last.owner = last.holder /\ last.res = "None"
             \/ last.step = "try" /\ last.was = "abandoned"

C15_Witness ==
    /\ last.step = "try" /\ last.was = "live" /\ last.holder # last.owner
    /\ ~last.changed /\ Doc.locked /\ Doc.owner = last.holder /\ Doc.expire > now

\* C16. Renewal race: the write of touch(key, x) changes nothing when the
\* document is not x's at that moment (freed, or taken over by another owner
\* since touch's read): the other owner's owner, created and expire stay.
C16_TouchWriteOwnOnly ==
    (last.step = "touch_write"
     /\ (last.was \in {"absent", "free"} \/ last.holder # last.owner))
        => ~last.changed

C16_Witness ==
    /\ last.step = "touch_write" /\ last.was \in Held /\ last.holder # last.owner
    /\ ~last.changed /\ Doc.locked /\ Doc.owner = last.holder

\* C17. Renewal of a non-expiring lock is a no-op: touch(key, owner) on a
\* document held by owner with expire null returns without error, writes
\* nothing, and the document keeps its null expire.
C17_TouchNoExpiryNoOp ==
    (last.step = "touch_read" /\ last.was = "unexpiring" /\ last.holder = last.owner)
        => (/\ last.res = "None" /\ ~last.changed
            /\ Doc.locked /\ Doc.owner = last.owner /\ Doc.expire = NULL)

C17_Witness ==
    /\ last.step = "touch_read" /\ last.was = "unexpiring"
    /\ last.holder = last.owner /\ last.res = "None"
    /\ Doc.locked /\ Doc.expire = NULL

\* C18. Bounded acquisition: every lock() call with a positive timeout that
\* entered the polling loop eventually returns, whoever holds the key and
\* whether or not the holder's lock ever expires or is released.
C18_LockReturns ==
    \A p \in Procs : (pc[p] = "try") ~> (pc[p] # "try")

C18_Witness ==
    /\ last.step = "try" /\ last.wait /\ last.was = "unexpiring"
    /\ last.holder # last.owner /\ last.res # "loop"
    /\ \A p \in Procs : pc[p] # "try"

\* C19. Record shape: every document in the collection is either fully free
\* (locked false; owner, created and expire null) or fully held (locked true,
\* an owner and a created time set), whatever the interleaving of lock,
\* release and the two steps of touch.
C19_RecordShape ==
    \A k \in Keys :
        store[k].exists
            => \/ store[k] = FreeRec
               \/ /\ store[k].locked
                  /\ store[k].owner \in Owners
                  /\ store[k].created # NULL

C19_Witness ==
    /\ last.step = "touch_write" /\ last.was = "free"
    /\ Doc = FreeRec /\ ~last.changed

\* C20. Lease live at birth: when lock() with a positive expire acquires the
\* key, the expire it writes is later than the created it writes.
C20_LeaseLiveAtBirth ==
    (/\ LockStep /\ last.res = "True"
     /\ last.was \in {"absent", "free", "abandoned"} /\ Doc.expire # NULL)
        => Doc.expire > Doc.created

====
